---- MODULE Spec2Model ----
(***************************************************************************)
(* Model of musicalert.py: the Grafana webhook handler (do_POST), the      *)
(* time window check (do_not_disturb), the payload evaluation              *)
(* (handle_grafana_payload, handle_grafana_alert) and the play queue.      *)
(*                                                                         *)
(* Strings that the code inspects character by character (alert names,     *)
(* value strings, regular expressions) are sequences of one-character      *)
(* strings.  A value that may be absent (a missing key, a JSON null, a     *)
(* Python None) is a sequence of length 0 or 1: <<>> is None, <<v>> is v.  *)
(***************************************************************************)
EXTENDS Integers, Sequences, FiniteSets, TLC

VARIABLES
    mp3match,      \* server.mp3match: the rule table, in configuration order
    start_hr,      \* server.start_hr
    end_hr,        \* server.end_hr
    play_queue,    \* server.play_queue: FIFO of mp3 files waiting to be played
    op,            \* name of the operation that ran last ("none" at start)
    arg,           \* the argument of that operation
    ret,           \* the value it returned (FALSE when it returned None or raised)
    raised,        \* the exception that left it ("" when it returned)
    puts,          \* the files it put on play_queue, in order
    responses,     \* the HTTP status codes it sent with _set_response
    put_log,       \* every file put on play_queue since the start, in order
    timeout,       \* args.timeout as handed to play_mp3: "int" (the default 30) or "str" (given with -t)
    on_disk,       \* the mp3 files that exist on disk
    worker,        \* where the play_mp3 thread stands
    path,          \* play_mp3's path ("" when it holds none)
    procs,         \* the state of every player process spawned so far, in order
    started,       \* the path of every player process spawned so far, in order
    overdue,       \* the last player has been running for longer than the timeout
    worker_raised, \* the exception raised in play_mp3 ("" when none)
    fan_config,    \* fan.py: config (start_hour, end_hour, temp_diff)
    device_on      \* fan.py: whether the plug is on

wvars == <<timeout, on_disk, worker, path, procs, started, overdue, worker_raised>>
fvars == <<fan_config, device_on>>
vars == <<mp3match, start_hr, end_hr, play_queue, op, arg, ret, raised, puts, responses,
          put_log, timeout, on_disk, worker, path, procs, started, overdue, worker_raised,
          fan_config, device_on>>

(***************************************************************************)
(* Bounds of the model.                                                    *)
(***************************************************************************)
MaxQueue == 2
MaxAlerts == 2
MaxPuts == 3

(***************************************************************************)
(* Optional values.                                                        *)
(***************************************************************************)
None == <<>>
Some(v) == <<v>>
IsNone(o) == o = <<>>
Val(o) == o[1]

(***************************************************************************)
(* Strings.                                                                *)
(***************************************************************************)
s_foo == <<"f", "o", "o">>
s_Foo == <<"F", "o", "o">>
s_FOO == <<"F", "O", "O">>
s_foobar == <<"f", "o", "o", "b", "a", "r">>
s_empty == <<>>
s_bar == <<"b", "a", "r">>
s_huh == <<"h", "u", "h">>
s_one_bar_two == <<"o", "n", "e", " ", "b", "a", "r", " ", "t", "w", "o">>
s_bar_two == <<"b", "a", "r", " ", "t", "w", "o">>
re_any_bar_any == <<".", "*", "b", "a", "r", ".", "*">>
re_bar == <<"b", "a", "r">>
re_any == <<".", "*">>

From(s, i) == SubSeq(s, i, Len(s))

\* str.lower() on the letters of the model's alphabet.
LowerChar(c) == CASE c = "F" -> "f" [] c = "O" -> "o" [] OTHER -> c
Lower(s) == [i \in DOMAIN s |-> LowerChar(s[i])]

(***************************************************************************)
(* re.match(pattern, string) for patterns made of literal characters, '.'  *)
(* and a postfix '*': TRUE iff the pattern matches a prefix of the string  *)
(* (the match is anchored at the start of the string and need not reach    *)
(* its end).                                                               *)
(***************************************************************************)
RECURSIVE matchhere(_, _)
matchhere(re, text) ==
    IF Len(re) = 0 THEN TRUE
    ELSE IF Len(re) >= 2 /\ re[2] = "*"
    THEN \E k \in 0..Len(text) :
            /\ \A j \in 1..k : re[1] = "." \/ re[1] = text[j]
            /\ matchhere(From(re, 3), From(text, k + 1))
    ELSE /\ Len(text) >= 1
         /\ (re[1] = "." \/ re[1] = text[1])
         /\ matchhere(From(re, 2), From(text, 2))

re_match(pattern, string) == matchhere(pattern, string)

\* re.search(pattern, string): the pattern matches from some position on.
re_search(pattern, string) ==
    \E i \in 1..(Len(string) + 1) : matchhere(pattern, From(string, i))

(***************************************************************************)
(* The time of a request: hour, minute and second of one day.  The code    *)
(* builds start_time and end_time on the date of 'now', so the three       *)
(* datetimes compare as their seconds since midnight.                      *)
(***************************************************************************)
Time(h, m, s) == [hour |-> h, minute |-> m, second |-> s]
SecondsOfDay(t) == t.hour * 3600 + t.minute * 60 + t.second

\* The test for a window that wraps past midnight when start_hr > end_hr.
do_not_disturb_wrapping(now, s_hr, e_hr) ==
    LET start_time == SecondsOfDay(Time(s_hr, 0, 0))
        end_time == SecondsOfDay(Time(e_hr, 0, 0))
    IN  IF s_hr <= e_hr
        THEN SecondsOfDay(now) < start_time \/ SecondsOfDay(now) > end_time
        ELSE SecondsOfDay(now) < start_time /\ SecondsOfDay(now) > end_time

\* The same check with the two bounds of the window excluded.
do_not_disturb_exclusive(now, s_hr, e_hr) ==
    LET start_time == SecondsOfDay(Time(s_hr, 0, 0))
        end_time == SecondsOfDay(Time(e_hr, 0, 0))
    IN  IF SecondsOfDay(now) <= start_time \/ SecondsOfDay(now) >= end_time
        THEN TRUE
        ELSE FALSE

do_not_disturb(now, s_hr, e_hr) ==
    LET start_time == SecondsOfDay(Time(s_hr, 0, 0))
        end_time == SecondsOfDay(Time(e_hr, 0, 0))
    IN  IF SecondsOfDay(now) < start_time \/ SecondsOfDay(now) > end_time
        THEN TRUE
        ELSE FALSE

(***************************************************************************)
(* Outcome of a function: what it returned or raised, and what it put on   *)
(* the play queue before that.                                             *)
(***************************************************************************)
Return(value, files) == [raised |-> "", ret |-> value, puts |-> files]
Raise(exc, files) == [raised |-> exc, ret |-> FALSE, puts |-> files]

(***************************************************************************)
(* Rules: mp3match maps a file to a bare alert name or to a list           *)
(* [alert name, value pattern].                                            *)
(***************************************************************************)
NameRule(file, name) == [file |-> file, params |-> [is_list |-> FALSE, str |-> name]]
ValueRule(file, name, pattern) ==
    [file |-> file, params |-> [is_list |-> TRUE, items |-> <<name, pattern>>]]

alert_name_match(params) == IF params.is_list THEN params.items[1] ELSE params.str
value_match(params) == IF params.is_list THEN Some(params.items[2]) ELSE None

(***************************************************************************)
(* Alert items and payloads.                                               *)
(***************************************************************************)
Alert(status, labels, valueString) ==
    [status |-> status, labels |-> labels, valueString |-> valueString]
Labels(alertname) == [alertname |-> alertname]

\* The comparison of names with both sides lowered.
name_equal_nocase(rule_name, alert_name) == Lower(rule_name) = Lower(alert_name)

\* alert_name_match == alert_name
name_equal(rule_name, alert_name) == rule_name = alert_name

\* The value test with re.search in place of re.match.
value_found_search(pattern, alert_value) ==
    /\ ~IsNone(alert_value)
    /\ Val(alert_value) # s_empty
    /\ re_search(pattern, Val(alert_value))

\* alert_value and re.match(value_match, alert_value)
value_found(pattern, alert_value) ==
    /\ ~IsNone(alert_value)
    /\ Val(alert_value) # s_empty
    /\ re_match(pattern, Val(alert_value))

\* The loop over mp3match.items() of handle_grafana_alert, from rule i on.
\* The loop ended at the first rule of the alert's name, whatever its value
\* test says.
RECURSIVE scan_rules_stop(_, _, _, _)
scan_rules_stop(alert, alert_name, table, i) ==
    IF i > Len(table) THEN Return(FALSE, <<>>)
    ELSE LET file == table[i].file
             params == table[i].params
         IN  IF name_equal(alert_name_match(params), alert_name)
             THEN IF IsNone(value_match(params))
                  THEN Return(TRUE, <<file>>)
                  ELSE IF value_found(Val(value_match(params)), alert.valueString)
                       THEN Return(TRUE, <<file>>)
                       ELSE Return(FALSE, <<>>)
             ELSE scan_rules_stop(alert, alert_name, table, i + 1)

\* The loop without its return after a put: every matching rule's file is put.
RECURSIVE scan_rules_all(_, _, _, _)
scan_rules_all(alert, alert_name, table, i) ==
    IF i > Len(table) THEN Return(FALSE, <<>>)
    ELSE LET file == table[i].file
             params == table[i].params
             rest == scan_rules_all(alert, alert_name, table, i + 1)
         IN  IF /\ name_equal(alert_name_match(params), alert_name)
                /\ \/ IsNone(value_match(params))
                   \/ value_found(Val(value_match(params)), alert.valueString)
             THEN Return(TRUE, <<file>> \o rest.puts)
             ELSE rest

RECURSIVE scan_rules(_, _, _, _)
scan_rules(alert, alert_name, table, i) ==
    IF i > Len(table) THEN Return(FALSE, <<>>)
    ELSE LET file == table[i].file
             params == table[i].params
         IN  IF name_equal(alert_name_match(params), alert_name)
             THEN IF IsNone(value_match(params))
                  THEN Return(TRUE, <<file>>)
                  ELSE IF value_found(Val(value_match(params)), alert.valueString)
                       THEN Return(TRUE, <<file>>)
                       ELSE scan_rules(alert, alert_name, table, i + 1)
             ELSE scan_rules(alert, alert_name, table, i + 1)

\* handle_grafana_alert that takes an item without status for one that is
\* not firing.
handle_grafana_alert_status_optional(alert, table) ==
    IF IsNone(alert.status)
    THEN Return(FALSE, <<>>)
    ELSE IF Val(alert.status) # "firing"
    THEN Return(FALSE, <<>>)
    ELSE IF IsNone(alert.labels)
    THEN Raise("AttributeError", <<>>)
    ELSE IF IsNone(Val(alert.labels).alertname)
    THEN Raise("GrafanaPayloadException", <<>>)
    ELSE scan_rules(alert, Val(Val(alert.labels).alertname), table, 1)

\* handle_grafana_alert without the return for a status other than "firing".
handle_grafana_alert_any_status(alert, table) ==
    IF IsNone(alert.status)
    THEN Raise("GrafanaPayloadException", <<>>)
    ELSE IF IsNone(alert.labels)
    THEN Raise("AttributeError", <<>>)
    ELSE IF IsNone(Val(alert.labels).alertname)
    THEN Raise("GrafanaPayloadException", <<>>)
    ELSE scan_rules(alert, Val(Val(alert.labels).alertname), table, 1)

handle_grafana_alert(alert, table) ==
    IF IsNone(alert.status)
    THEN Raise("GrafanaPayloadException", <<>>)
    ELSE IF Val(alert.status) # "firing"
    THEN Return(FALSE, <<>>)
    ELSE IF IsNone(alert.labels)
    THEN Raise("AttributeError", <<>>)       \* None.get("alertname")
    ELSE IF IsNone(Val(alert.labels).alertname)
    THEN Raise("GrafanaPayloadException", <<>>)
    ELSE scan_rules(alert, Val(Val(alert.labels).alertname), table, 1)

NullPayload == [kind |-> "null"]
NonObjectPayload == [kind |-> "nonobject"]
Payload(status, alerts) == [kind |-> "object", status |-> status, alerts |-> alerts]

\* The loop left at the first item that put a file.
RECURSIVE for_alerts_first(_, _, _, _, _)
for_alerts_first(alerts, table, i, queued, files) ==
    IF i > Len(alerts) THEN Return(queued, files)
    ELSE LET r == handle_grafana_alert(alerts[i], table)
         IN  IF r.raised # ""
             THEN Raise(r.raised, files \o r.puts)
             ELSE IF r.ret
             THEN Return(TRUE, files \o r.puts)
             ELSE for_alerts_first(alerts, table, i + 1, queued, files)

\* The loop with queued set from the last item alone.
RECURSIVE for_alerts_last(_, _, _, _, _)
for_alerts_last(alerts, table, i, queued, files) ==
    IF i > Len(alerts) THEN Return(queued, files)
    ELSE LET r == handle_grafana_alert(alerts[i], table)
         IN  IF r.raised # ""
             THEN Raise(r.raised, files \o r.puts)
             ELSE for_alerts_last(alerts, table, i + 1, r.ret, files \o r.puts)

\* The loop over alerts of handle_grafana_payload, from item i on.
RECURSIVE for_alerts(_, _, _, _, _)
for_alerts(alerts, table, i, queued, files) ==
    IF i > Len(alerts) THEN Return(queued, files)
    ELSE LET r == handle_grafana_alert(alerts[i], table)
         IN  IF r.raised # ""
             THEN Raise(r.raised, files \o r.puts)
             ELSE for_alerts(alerts, table, i + 1, queued \/ r.ret, files \o r.puts)

\* handle_grafana_payload that ignores a batch whose top-level status is not
\* "firing".
handle_grafana_payload_firing_only(payload, table) ==
    IF payload.kind = "null"
    THEN Raise("GrafanaPayloadException", <<>>)
    ELSE IF payload.kind = "nonobject"
    THEN Raise("AttributeError", <<>>)
    ELSE IF IsNone(payload.status)
    THEN Raise("GrafanaPayloadException", <<>>)
    ELSE IF Val(payload.status) # "firing"
    THEN Return(FALSE, <<>>)
    ELSE IF IsNone(payload.alerts)
    THEN Raise("GrafanaPayloadException", <<>>)
    ELSE for_alerts(Val(payload.alerts), table, 1, FALSE, <<>>)

\* handle_grafana_payload with a missing 'alerts' read as an empty list.
handle_grafana_payload_alerts_default(payload, table) ==
    IF payload.kind = "null"
    THEN Raise("GrafanaPayloadException", <<>>)
    ELSE IF payload.kind = "nonobject"
    THEN Raise("AttributeError", <<>>)
    ELSE IF IsNone(payload.status)
    THEN Raise("GrafanaPayloadException", <<>>)
    ELSE IF IsNone(payload.alerts)
    THEN Return(FALSE, <<>>)
    ELSE for_alerts(Val(payload.alerts), table, 1, FALSE, <<>>)

handle_grafana_payload(payload, table) ==
    IF payload.kind = "null"
    THEN Raise("GrafanaPayloadException", <<>>)
    ELSE IF payload.kind = "nonobject"
    THEN Raise("AttributeError", <<>>)       \* payload.get of a list, number or string
    ELSE IF IsNone(payload.status)
    THEN Raise("GrafanaPayloadException", <<>>)
    ELSE IF IsNone(payload.alerts)
    THEN Raise("GrafanaPayloadException", <<>>)
    ELSE for_alerts(Val(payload.alerts), table, 1, FALSE, <<>>)

(***************************************************************************)
(* A request: the User-Agent header, the time it arrives, the              *)
(* Content-Length header ("missing", "nan" for a value int() rejects,      *)
(* "zero", or "len" for the length of the body) and the body               *)
(* ("badutf8", "notjson", or "json" with the decoded payload).             *)
(***************************************************************************)
Request(ua, now, content_length, body) ==
    [ua |-> ua, now |-> now, content_length |-> content_length, body |-> body]
JsonBody(payload) == [kind |-> "json", payload |-> payload]
RawBody(kind) == [kind |-> kind, payload |-> NullPayload]

Respond(codes, exc, files) == [responses |-> codes, raised |-> exc, puts |-> files]

\* The source test accepting the name in any case.
user_agent_ok_nocase(ua) == ua \in {"Grafana", "grafana", "GRAFANA"}

\* self.headers.get("User-Agent") == "Grafana" ("" stands for a missing header)
user_agent_ok(ua) == ua = "Grafana"

handle_request(request, table, s_hr, e_hr) ==
    IF ~user_agent_ok(request.ua)
    THEN Respond(<<400>>, "", <<>>)
    ELSE IF ~do_not_disturb(request.now, s_hr, e_hr)
    THEN Respond(<<200>>, "", <<>>)
    ELSE IF request.content_length = "missing"
    THEN Respond(<<>>, "TypeError", <<>>)            \* int(None)
    ELSE IF request.content_length = "nan"
    THEN Respond(<<>>, "ValueError", <<>>)           \* int("abc")
    ELSE IF request.content_length = "zero"
    THEN Respond(<<400>>, "", <<>>)
    ELSE IF request.body.kind = "badutf8"
    THEN Respond(<<>>, "UnicodeDecodeError", <<>>)   \* post_data.decode("utf-8")
    ELSE IF request.body.kind = "notjson"
    THEN Respond(<<400>>, "", <<>>)
    ELSE LET r == handle_grafana_payload(request.body.payload, table)
         IN  IF r.raised = "GrafanaPayloadException"
             THEN Respond(<<400>>, "", r.puts)
             ELSE IF r.raised # ""
             THEN Respond(<<>>, r.raised, r.puts)
             ELSE Respond(<<200>>, "", r.puts)

(***************************************************************************)
(* Inputs.  Times have a resolution of one second.  A decoded payload is   *)
(* null, a JSON value that is not an object, or an object whose 'alerts',  *)
(* when present, is a list of objects; names, value strings and patterns   *)
(* are strings.                                                            *)
(***************************************************************************)
Hours == 0..23
Minutes == {0, 1, 5, 44, 59}
Seconds == {0, 1}
Times == {Time(h, m, s) : h \in Hours, m \in Minutes, s \in Seconds}
Windows == {<<9, 22>>, <<8, 23>>, <<22, 9>>, <<9, 9>>, <<0, 23>>}

RuleTables ==
    { <<NameRule("foo.mp3", s_foo)>>,
      <<NameRule("foo.mp3", s_foobar)>>,
      <<ValueRule("foo.mp3", s_foo, re_any_bar_any)>>,
      <<ValueRule("foo.mp3", s_foo, re_bar)>>,
      <<ValueRule("foo.mp3", s_foo, re_any)>>,
      <<ValueRule("foo.mp3", s_foo, re_bar), NameRule("alt.mp3", s_foo)>>,
      <<NameRule("foo.mp3", s_foo), ValueRule("alt.mp3", s_foo, re_any_bar_any)>>,
      <<ValueRule("foo.mp3", s_foo, re_bar), ValueRule("alt.mp3", s_foo, re_any_bar_any)>> }

Statuses == {None, Some("firing"), Some("resolved")}
AlertNames == {s_foo, s_Foo, s_FOO, s_foobar}
AllLabels == {None, Some(Labels(None))} \cup {Some(Labels(Some(n))) : n \in AlertNames}
ValueStrings ==
    {None, Some(s_empty), Some(s_bar), Some(s_one_bar_two), Some(s_bar_two), Some(s_huh)}
Alerts == {Alert(st, l, v) : st \in Statuses, l \in AllLabels, v \in ValueStrings}

\* The alert items of the batches.
BatchAlerts ==
    { Alert(Some("firing"), Some(Labels(Some(s_foo))), Some(s_one_bar_two)),
      Alert(Some("resolved"), Some(Labels(Some(s_foo))), Some(s_one_bar_two)),
      Alert(Some("firing"), None, None),
      Alert(None, Some(Labels(Some(s_foo))), None) }
PostAlerts == BatchAlerts \cup {Alert(Some("firing"), Some(Labels(None)), None)}

SeqsUpTo(S, n) == UNION {[1..k -> S] : k \in 0..n}

OddPayloads ==
    { NullPayload, NonObjectPayload, Payload(None, None),
      Payload(Some("firing"), None), Payload(None, Some(<<>>)) }

\* The payloads handle_grafana_payload is called with directly.
Payloads ==
    OddPayloads
    \cup {Payload(st, Some(items)) : st \in {Some("firing"), Some("resolved")},
                                     items \in SeqsUpTo(BatchAlerts, MaxAlerts)}

\* The requests of the server: Grafana's posts with every body, Grafana's
\* posts with an unusable Content-Length, and posts of another client.
PostTimes == {Time(8, 44, 0), Time(16, 44, 0), Time(22, 5, 0)}
PostPayloads ==
    OddPayloads
    \cup {Payload(Some("firing"), Some(items)) : items \in SeqsUpTo(PostAlerts, MaxAlerts)}
PostBodies == {RawBody("badutf8"), RawBody("notjson")} \cup {JsonBody(p) : p \in PostPayloads}
SampleBody ==
    JsonBody(Payload(Some("firing"),
        Some(<<Alert(Some("firing"), Some(Labels(Some(s_foo))), Some(s_one_bar_two))>>)))
Requests ==
    {Request("Grafana", t, "len", b) : t \in PostTimes, b \in PostBodies}
    \cup {Request("Grafana", t, cl, SampleBody) : t \in PostTimes, cl \in {"missing", "nan", "zero"}}
    \cup {Request(ua, t, cl, b) : ua \in {"curl", "grafana", ""}, t \in PostTimes,
                                 cl \in {"missing", "nan", "zero", "len"},
                                 b \in {SampleBody, RawBody("badutf8")}}

ServerTables ==
    { <<NameRule("foo.mp3", s_foo)>>,
      <<ValueRule("foo.mp3", s_foo, re_any_bar_any)>>,
      <<ValueRule("foo.mp3", s_foo, re_bar), NameRule("alt.mp3", s_foo)>> }
ServerWindows == {<<9, 22>>}

NoArg == [kind |-> "none"]

(***************************************************************************)
(* The play queue is queue.Queue(): maxsize 0, which put() reads as no     *)
(* limit, so that put() returns at once; get() hands out the oldest entry. *)
(***************************************************************************)
queue_maxsize == 0

\* put() on a queue made with queue.Queue(maxsize=1).
put_ready_maxsize_one(queue, new_files) == Len(queue) + Len(new_files) <= 1

\* put() does not wait: the queue has no limit or has room.
put_ready(queue, new_files) ==
    queue_maxsize = 0 \/ Len(queue) + Len(new_files) <= queue_maxsize

\* get() of a queue.LifoQueue.
queue_get_lifo(queue) ==
    [item |-> queue[Len(queue)], rest |-> SubSeq(queue, 1, Len(queue) - 1)]

\* get() of queue.Queue.
queue_get(queue) == [item |-> Head(queue), rest |-> Tail(queue)]

Mp3Files == {"foo.mp3", "alt.mp3"}

(***************************************************************************)
(* fan.py: the configuration read by FanConfig and the plug.               *)
(***************************************************************************)
FanConfig(start_hour, end_hour, temp_diff) ==
    [start_hour |-> start_hour, end_hour |-> end_hour, temp_diff |-> temp_diff]

\* fan.py does not run: a configuration and the plug off.
FanStopped ==
    /\ fan_config = FanConfig(8, 20, 1)
    /\ device_on = FALSE

\* main() has started the play_mp3 thread, which is about to call get().
WorkerStarted ==
    /\ on_disk = Mp3Files
    /\ worker = "get"
    /\ path = ""
    /\ procs = <<>>
    /\ started = <<>>
    /\ overdue = FALSE
    /\ worker_raised = ""

(***************************************************************************)
(* The server: main() builds the rule table, the hours and an empty play   *)
(* queue, and every request runs do_POST to its end (HTTPServer handles    *)
(* one request at a time).                                                 *)
(***************************************************************************)
Init ==
    /\ mp3match \in ServerTables
    /\ \E w \in ServerWindows : start_hr = w[1] /\ end_hr = w[2]
    /\ play_queue = <<>>
    /\ op = "none"
    /\ arg = NoArg
    /\ ret = FALSE
    /\ raised = ""
    /\ puts = <<>>
    /\ responses = <<>>
    /\ put_log = <<>>
    /\ timeout = "int"
    /\ WorkerStarted
    /\ FanStopped

\* A handler that also drops from mp3match the rules whose files it has put.
do_POST_consumes_rules(request) ==
    LET r == handle_request(request, mp3match, start_hr, end_hr)
    IN  /\ Len(play_queue) + Len(r.puts) <= MaxQueue
        /\ Len(put_log) + Len(r.puts) <= MaxPuts
        /\ put_ready(play_queue, r.puts)
        /\ play_queue' = play_queue \o r.puts
        /\ put_log' = put_log \o r.puts
        /\ op' = "do_POST"
        /\ arg' = request
        /\ ret' = FALSE
        /\ raised' = r.raised
        /\ puts' = r.puts
        /\ responses' = r.responses
        /\ mp3match' = SelectSeq(mp3match, LAMBDA rule : \A k \in DOMAIN r.puts : r.puts[k] # rule.file)
        /\ UNCHANGED <<start_hr, end_hr>>
        /\ UNCHANGED wvars
        /\ UNCHANGED fvars

do_POST(request) ==
    LET r == handle_request(request, mp3match, start_hr, end_hr)
    IN  /\ Len(play_queue) + Len(r.puts) <= MaxQueue
        /\ Len(put_log) + Len(r.puts) <= MaxPuts
        /\ put_ready(play_queue, r.puts)
        /\ play_queue' = play_queue \o r.puts
        /\ put_log' = put_log \o r.puts
        /\ op' = "do_POST"
        /\ arg' = request
        /\ ret' = FALSE
        /\ raised' = r.raised
        /\ puts' = r.puts
        /\ responses' = r.responses
        /\ UNCHANGED <<mp3match, start_hr, end_hr>>
        /\ UNCHANGED wvars
        /\ UNCHANGED fvars

Next == \E request \in Requests : do_POST(request)

Spec == Init /\ [][Next]_vars

(***************************************************************************)
(* handle_grafana_payload and handle_grafana_alert called on their own     *)
(* with a rule table and a queue, as test_alert.py calls them.             *)
(***************************************************************************)
InitMatch ==
    /\ mp3match \in RuleTables
    /\ start_hr = 8
    /\ end_hr = 23
    /\ play_queue = <<>>
    /\ op = "none"
    /\ arg = NoArg
    /\ ret = FALSE
    /\ raised = ""
    /\ puts = <<>>
    /\ responses = <<>>
    /\ put_log = <<>>
    /\ timeout = "int"
    /\ WorkerStarted
    /\ FanStopped

CallHandleGrafanaPayload(payload) ==
    LET r == handle_grafana_payload(payload, mp3match)
    IN  /\ Len(play_queue) + Len(r.puts) <= MaxQueue
        /\ play_queue' = play_queue \o r.puts
        /\ put_log' = put_log \o r.puts
        /\ op' = "handle_grafana_payload"
        /\ arg' = payload
        /\ ret' = r.ret
        /\ raised' = r.raised
        /\ puts' = r.puts
        /\ UNCHANGED <<mp3match, start_hr, end_hr, responses>>
        /\ UNCHANGED wvars
        /\ UNCHANGED fvars

CallHandleGrafanaAlert(alert) ==
    LET r == handle_grafana_alert(alert, mp3match)
    IN  /\ Len(play_queue) + Len(r.puts) <= MaxQueue
        /\ play_queue' = play_queue \o r.puts
        /\ put_log' = put_log \o r.puts
        /\ op' = "handle_grafana_alert"
        /\ arg' = alert
        /\ ret' = r.ret
        /\ raised' = r.raised
        /\ puts' = r.puts
        /\ UNCHANGED <<mp3match, start_hr, end_hr, responses>>
        /\ UNCHANGED wvars
        /\ UNCHANGED fvars

NextMatch ==
    \/ \E payload \in Payloads : CallHandleGrafanaPayload(payload)
    \/ \E alert \in Alerts : CallHandleGrafanaAlert(alert)

SpecMatch == InitMatch /\ [][NextMatch]_vars

(***************************************************************************)
(* do_not_disturb called on its own on a handler whose server carries the  *)
(* hours, as test_time_check calls it.                                     *)
(***************************************************************************)
InitGate ==
    /\ mp3match = <<NameRule("foo.mp3", s_foo)>>
    /\ \E w \in Windows : start_hr = w[1] /\ end_hr = w[2]
    /\ play_queue = <<>>
    /\ op = "none"
    /\ arg = NoArg
    /\ ret = FALSE
    /\ raised = ""
    /\ puts = <<>>
    /\ responses = <<>>
    /\ put_log = <<>>
    /\ timeout = "int"
    /\ WorkerStarted
    /\ FanStopped

CallDoNotDisturb(now) ==
    /\ op' = "do_not_disturb"
    /\ arg' = now
    /\ ret' = do_not_disturb(now, start_hr, end_hr)
    /\ UNCHANGED <<mp3match, start_hr, end_hr, play_queue, raised, puts, responses, put_log>>
    /\ UNCHANGED wvars
    /\ UNCHANGED fvars

NextGate == \E now \in Times : CallDoNotDisturb(now)

SpecGate == InitGate /\ [][NextGate]_vars

(***************************************************************************)
(* The server together with its play_mp3 thread.  The thread is a loop:    *)
(* get, test that the file exists, spawn the player, wait for it up to     *)
(* timeout, terminate it when the wait timed out and wait again,           *)
(* task_done.  The environment ends players, lets time pass and removes    *)
(* files.                                                                  *)
(***************************************************************************)
FiringItem(name) == Alert(Some("firing"), Some(Labels(Some(name))), None)
PlayTable == <<NameRule("foo.mp3", s_foo), NameRule("alt.mp3", s_foobar)>>
PlayBatches ==
    { <<FiringItem(s_foo)>>, <<FiringItem(s_foobar)>>,
      <<FiringItem(s_foo), FiringItem(s_foobar)>> }
PlayRequests ==
    {Request("Grafana", Time(8, 44, 0), "len", JsonBody(Payload(Some("firing"), Some(items)))) :
        items \in PlayBatches}
    \cup {Request("curl", Time(8, 44, 0), "len", SampleBody)}

Timeouts == {"int", "str"}

LastProc == procs[Len(procs)]
SetLastProc(state) == [procs EXCEPT ![Len(procs)] = state]

InitPlay ==
    /\ mp3match = PlayTable
    /\ start_hr = 9
    /\ end_hr = 22
    /\ play_queue = <<>>
    /\ op = "none"
    /\ arg = NoArg
    /\ ret = FALSE
    /\ raised = ""
    /\ puts = <<>>
    /\ responses = <<>>
    /\ put_log = <<>>
    /\ timeout \in Timeouts
    /\ WorkerStarted
    /\ FanStopped

\* path = play_queue.get(): blocks while the queue is empty
play_get ==
    /\ worker = "get"
    /\ play_queue # <<>>
    /\ path' = queue_get(play_queue).item
    /\ play_queue' = queue_get(play_queue).rest
    /\ worker' = "exists"
    /\ UNCHANGED <<mp3match, start_hr, end_hr, op, arg, ret, raised, puts, responses, put_log>>
    /\ UNCHANGED <<timeout, on_disk, procs, started, overdue, worker_raised>>
    /\ UNCHANGED fvars

\* if not os.path.exists(path): raise OSError, which ends the thread
play_exists ==
    /\ worker = "exists"
    /\ IF path \in on_disk
       THEN worker' = "popen" /\ worker_raised' = worker_raised
       ELSE worker' = "stopped" /\ worker_raised' = "OSError"
    /\ UNCHANGED <<mp3match, start_hr, end_hr, play_queue, op, arg, ret, raised, puts,
                   responses, put_log>>
    /\ UNCHANGED <<timeout, on_disk, path, procs, started, overdue>>
    /\ UNCHANGED fvars

\* with subprocess.Popen([mpg123, "-q", path]) as proc
play_popen ==
    /\ worker = "popen"
    /\ procs' = Append(procs, "running")
    /\ started' = Append(started, path)
    /\ overdue' = FALSE
    /\ worker' = "communicate"
    /\ UNCHANGED <<mp3match, start_hr, end_hr, play_queue, op, arg, ret, raised, puts,
                   responses, put_log>>
    /\ UNCHANGED <<timeout, on_disk, path, worker_raised>>
    /\ UNCHANGED fvars

\* proc.communicate(timeout=timeout) returns: the player has exited
play_communicate_done ==
    /\ worker = "communicate"
    /\ timeout = "int"
    /\ LastProc = "exited"
    /\ procs' = SetLastProc("reaped")
    /\ worker' = "task_done"
    /\ UNCHANGED <<mp3match, start_hr, end_hr, play_queue, op, arg, ret, raised, puts,
                   responses, put_log>>
    /\ UNCHANGED <<timeout, on_disk, path, started, overdue, worker_raised>>
    /\ UNCHANGED fvars

\* proc.communicate(timeout=timeout) raises TimeoutExpired
play_timeout_expired ==
    /\ worker = "communicate"
    /\ timeout = "int"
    /\ LastProc = "running"
    /\ overdue
    /\ worker' = "terminate"
    /\ UNCHANGED <<mp3match, start_hr, end_hr, play_queue, op, arg, ret, raised, puts,
                   responses, put_log>>
    /\ UNCHANGED <<timeout, on_disk, path, procs, started, overdue, worker_raised>>
    /\ UNCHANGED fvars

\* proc.communicate(timeout=timeout) with the str that -t leaves in
\* args.timeout: computing the deadline raises TypeError, which the except
\* clause does not catch, and the with statement waits for the player.
play_communicate_type_error ==
    /\ worker = "communicate"
    /\ timeout = "str"
    /\ worker' = "exit_wait"
    /\ worker_raised' = "TypeError"
    /\ UNCHANGED <<mp3match, start_hr, end_hr, play_queue, op, arg, ret, raised, puts,
                   responses, put_log>>
    /\ UNCHANGED <<timeout, on_disk, path, procs, started, overdue>>
    /\ UNCHANGED fvars

\* The except clause without its second communicate().
play_terminate_no_wait ==
    /\ worker = "terminate"
    /\ procs' = IF LastProc = "running" THEN SetLastProc("terminated") ELSE procs
    /\ worker' = "task_done"
    /\ UNCHANGED <<mp3match, start_hr, end_hr, play_queue, op, arg, ret, raised, puts,
                   responses, put_log>>
    /\ UNCHANGED <<timeout, on_disk, path, started, overdue, worker_raised>>
    /\ UNCHANGED fvars

\* proc.terminate(): SIGTERM to the player unless it has exited meanwhile
play_terminate ==
    /\ worker = "terminate"
    /\ procs' = IF LastProc = "running" THEN SetLastProc("terminated") ELSE procs
    /\ worker' = "communicate2"
    /\ UNCHANGED <<mp3match, start_hr, end_hr, play_queue, op, arg, ret, raised, puts,
                   responses, put_log>>
    /\ UNCHANGED <<timeout, on_disk, path, started, overdue, worker_raised>>
    /\ UNCHANGED fvars

\* The except clause with proc.poll() in place of communicate(): it does not
\* wait for the exit.
play_communicate2_poll ==
    /\ worker = "communicate2"
    /\ procs' = IF LastProc = "exited" THEN SetLastProc("reaped") ELSE procs
    /\ worker' = "task_done"
    /\ UNCHANGED <<mp3match, start_hr, end_hr, play_queue, op, arg, ret, raised, puts,
                   responses, put_log>>
    /\ UNCHANGED <<timeout, on_disk, path, started, overdue, worker_raised>>
    /\ UNCHANGED fvars

\* proc.communicate() of the except clause: waits, without a limit, for the exit
play_communicate2 ==
    /\ worker = "communicate2"
    /\ LastProc = "exited"
    /\ procs' = SetLastProc("reaped")
    /\ worker' = "task_done"
    /\ UNCHANGED <<mp3match, start_hr, end_hr, play_queue, op, arg, ret, raised, puts,
                   responses, put_log>>
    /\ UNCHANGED <<timeout, on_disk, path, started, overdue, worker_raised>>
    /\ UNCHANGED fvars

\* Popen.__exit__ while the TypeError propagates: waits for the exit, and
\* the exception then ends the thread
play_exit_wait ==
    /\ worker = "exit_wait"
    /\ LastProc = "exited"
    /\ procs' = SetLastProc("reaped")
    /\ worker' = "stopped"
    /\ UNCHANGED <<mp3match, start_hr, end_hr, play_queue, op, arg, ret, raised, puts,
                   responses, put_log>>
    /\ UNCHANGED <<timeout, on_disk, path, started, overdue, worker_raised>>
    /\ UNCHANGED fvars

\* play_queue.task_done(), and back to the head of the loop
play_task_done ==
    /\ worker = "task_done"
    /\ worker' = "get"
    /\ path' = ""
    /\ UNCHANGED <<mp3match, start_hr, end_hr, play_queue, op, arg, ret, raised, puts,
                   responses, put_log>>
    /\ UNCHANGED <<timeout, on_disk, procs, started, overdue, worker_raised>>
    /\ UNCHANGED fvars

\* A player ends by itself (the file is played to its end, or cannot be played).
player_exits ==
    /\ \E i \in DOMAIN procs :
          /\ procs[i] = "running"
          /\ procs' = [procs EXCEPT ![i] = "exited"]
    /\ UNCHANGED <<mp3match, start_hr, end_hr, play_queue, op, arg, ret, raised, puts,
                   responses, put_log>>
    /\ UNCHANGED <<timeout, on_disk, worker, path, started, overdue, worker_raised>>
    /\ UNCHANGED fvars

\* A player that was sent SIGTERM ends.
player_killed ==
    /\ \E i \in DOMAIN procs :
          /\ procs[i] = "terminated"
          /\ procs' = [procs EXCEPT ![i] = "exited"]
    /\ UNCHANGED <<mp3match, start_hr, end_hr, play_queue, op, arg, ret, raised, puts,
                   responses, put_log>>
    /\ UNCHANGED <<timeout, on_disk, worker, path, started, overdue, worker_raised>>
    /\ UNCHANGED fvars

\* The player the thread waits for has been running for longer than the timeout.
timeout_elapses ==
    /\ procs # <<>>
    /\ LastProc = "running"
    /\ ~overdue
    /\ overdue' = TRUE
    /\ UNCHANGED <<mp3match, start_hr, end_hr, play_queue, op, arg, ret, raised, puts,
                   responses, put_log>>
    /\ UNCHANGED <<timeout, on_disk, worker, path, procs, started, worker_raised>>
    /\ UNCHANGED fvars

\* An mp3 file is removed from the disk while the server runs.
file_removed(f) ==
    /\ f \in on_disk
    /\ on_disk' = on_disk \ {f}
    /\ UNCHANGED <<mp3match, start_hr, end_hr, play_queue, op, arg, ret, raised, puts,
                   responses, put_log>>
    /\ UNCHANGED <<timeout, worker, path, procs, started, overdue, worker_raised>>
    /\ UNCHANGED fvars

play_mp3 ==
    \/ play_get
    \/ play_exists
    \/ play_popen
    \/ play_communicate_done
    \/ play_timeout_expired
    \/ play_communicate_type_error
    \/ play_terminate
    \/ play_communicate2
    \/ play_exit_wait
    \/ play_task_done

NextPlay ==
    \/ \E request \in PlayRequests : do_POST(request)
    \/ play_mp3
    \/ player_exits
    \/ player_killed
    \/ timeout_elapses
    \/ \E f \in Mp3Files : file_removed(f)

SpecPlay == InitPlay /\ [][NextPlay]_vars

(***************************************************************************)
(* The same server where no file is removed, every player that is left     *)
(* running ends by itself, every player that was sent SIGTERM ends, and    *)
(* the thread is scheduled whenever it can take a step.                    *)
(***************************************************************************)
NextPlayFair ==
    \/ \E request \in PlayRequests : do_POST(request)
    \/ play_mp3
    \/ player_exits
    \/ player_killed
    \/ timeout_elapses

SpecPlayFair ==
    /\ InitPlay
    /\ [][NextPlayFair]_vars
    /\ WF_vars(play_mp3)
    /\ WF_vars(player_exits)
    /\ WF_vars(player_killed)

(***************************************************************************)
(* load_hr_config called on configurations with and without the start_end  *)
(* section; main stores what it returns in start_hr and end_hr.            *)
(***************************************************************************)
DefaultStartHr == 8
DefaultEndHr == 23

\* The loaded configuration: whether it has a start_end section, and the
\* section's start_hr and end_hr if it supplies them.
Config(has_section, start_hr_config, end_hr_config) ==
    [kind |-> "config", has_section |-> has_section,
     start_hr |-> start_hr_config, end_hr |-> end_hr_config]

\* Truth value of what dict.get returned: None and 0 are false.
truthy(value) == ~IsNone(value) /\ Val(value) # 0

load_hr_config(config) ==
    IF config.has_section
    THEN <<IF truthy(config.start_hr) THEN Val(config.start_hr) ELSE DefaultStartHr,
           IF truthy(config.end_hr) THEN Val(config.end_hr) ELSE DefaultEndHr>>
    ELSE <<DefaultStartHr, DefaultEndHr>>

OptHours == {None} \cup {Some(h) : h \in Hours}
Configs ==
    {Config(FALSE, None, None)}
    \cup {Config(TRUE, s, e) : s \in OptHours, e \in OptHours}

InitConfig ==
    /\ mp3match = <<>>
    /\ start_hr = DefaultStartHr
    /\ end_hr = DefaultEndHr
    /\ play_queue = <<>>
    /\ op = "none"
    /\ arg = NoArg
    /\ ret = FALSE
    /\ raised = ""
    /\ puts = <<>>
    /\ responses = <<>>
    /\ put_log = <<>>
    /\ timeout = "int"
    /\ WorkerStarted
    /\ FanStopped

\* start_hr, end_hr = load_hr_config(config)
CallLoadHrConfig(config) ==
    /\ start_hr' = load_hr_config(config)[1]
    /\ end_hr' = load_hr_config(config)[2]
    /\ op' = "load_hr_config"
    /\ arg' = config
    /\ UNCHANGED <<mp3match, play_queue, ret, raised, puts, responses, put_log>>
    /\ UNCHANGED wvars
    /\ UNCHANGED fvars

NextConfig == \E config \in Configs : CallLoadHrConfig(config)

SpecConfig == InitConfig /\ [][NextConfig]_vars

(***************************************************************************)
(* handle_grafana_payload called on batches whose items select different   *)
(* files: against BatchTable the firing 'foo' with value 'bar' selects     *)
(* foo.mp3 and the firing 'foo' with value 'one bar two' selects alt.mp3.  *)
(***************************************************************************)
BatchTable ==
    <<ValueRule("foo.mp3", s_foo, re_bar), ValueRule("alt.mp3", s_foo, re_any_bar_any)>>
BatchItems ==
    { Alert(Some("firing"), Some(Labels(Some(s_foo))), Some(s_bar)),
      Alert(Some("firing"), Some(Labels(Some(s_foo))), Some(s_one_bar_two)),
      Alert(Some("firing"), Some(Labels(Some(s_foo))), Some(s_huh)),
      Alert(Some("resolved"), Some(Labels(Some(s_foo))), Some(s_bar)),
      Alert(None, Some(Labels(Some(s_foo))), Some(s_bar)) }
TopStatuses == {Some("firing"), Some("resolved"), Some("ok")}
BatchPayloads ==
    {Payload(st, Some(items)) : st \in TopStatuses, items \in SeqsUpTo(BatchItems, MaxAlerts)}

InitBatch ==
    /\ mp3match = BatchTable
    /\ start_hr = 8
    /\ end_hr = 23
    /\ play_queue = <<>>
    /\ op = "none"
    /\ arg = NoArg
    /\ ret = FALSE
    /\ raised = ""
    /\ puts = <<>>
    /\ responses = <<>>
    /\ put_log = <<>>
    /\ timeout = "int"
    /\ WorkerStarted
    /\ FanStopped

NextBatch == \E payload \in BatchPayloads : CallHandleGrafanaPayload(payload)

SpecBatch == InitBatch /\ [][NextBatch]_vars

(***************************************************************************)
(* The legacy variant alert.py: handle_grafana_alert(payload, rule2file,   *)
(* play_queue).  rule2file is the rule2mp3 section of a configparser       *)
(* configuration: its keys were lower-cased when the file was read, and    *)
(* get() lower-cases the name it looks up.                                 *)
(***************************************************************************)
LegacyPayload(state, rule_name) ==
    [kind |-> "object", state |-> state, ruleName |-> rule_name]

Mapping(rule_name, file) == [name |-> Lower(rule_name), file |-> file]

\* rule2file.get(rule_name): the file of the rule, None without a mapping
rule2file_get(rule2file, rule_name) ==
    IF \E m \in rule2file : m.name = Lower(rule_name)
    THEN Some((CHOOSE m \in rule2file : m.name = Lower(rule_name)).file)
    ELSE None

\* The state test with "pending" counted too.
state_alerting_or_pending(state) == state \in {"alerting", "pending"}

\* state != "alerting", negated
state_alerting(state) == state = "alerting"

alert_handle_grafana_alert(payload, rule2file) ==
    IF payload.kind = "null"
    THEN Raise("GrafanaPayloadException", <<>>)
    ELSE IF payload.kind = "nonobject"
    THEN Raise("AttributeError", <<>>)       \* payload.get of a list, number or string
    ELSE IF IsNone(payload.state)
    THEN Raise("GrafanaPayloadException", <<>>)
    ELSE IF ~state_alerting(Val(payload.state))
    THEN Return(FALSE, <<>>)
    ELSE IF IsNone(payload.ruleName)
    THEN Raise("GrafanaPayloadException", <<>>)
    ELSE LET file_to_play == rule2file_get(rule2file, Val(payload.ruleName))
         IN  IF IsNone(file_to_play)
             THEN Return(FALSE, <<>>)
             ELSE Return(TRUE, <<Val(file_to_play)>>)

LegacyStates == {None, Some("alerting"), Some("pending"), Some("ok")}
LegacyRuleNames == {None, Some(s_foo), Some(s_FOO), Some(s_foobar)}
LegacyPayloads ==
    {NullPayload, NonObjectPayload}
    \cup {LegacyPayload(st, n) : st \in LegacyStates, n \in LegacyRuleNames}
Rule2Files ==
    { {},
      {Mapping(s_Foo, "foo.mp3")},
      {Mapping(s_foo, "foo.mp3"), Mapping(s_foobar, "alt.mp3")} }

InitLegacy ==
    /\ mp3match = <<>>
    /\ start_hr = 8
    /\ end_hr = 23
    /\ play_queue = <<>>
    /\ op = "none"
    /\ arg = NoArg
    /\ ret = FALSE
    /\ raised = ""
    /\ puts = <<>>
    /\ responses = <<>>
    /\ put_log = <<>>
    /\ timeout = "int"
    /\ WorkerStarted
    /\ FanStopped

CallLegacyHandleGrafanaAlert(payload, rule2file) ==
    LET r == alert_handle_grafana_alert(payload, rule2file)
    IN  /\ Len(play_queue) + Len(r.puts) <= MaxQueue
        /\ play_queue' = play_queue \o r.puts
        /\ put_log' = put_log \o r.puts
        /\ op' = "alert.handle_grafana_alert"
        /\ arg' = [kind |-> "legacy", payload |-> payload, rule2file |-> rule2file]
        /\ ret' = r.ret
        /\ raised' = r.raised
        /\ puts' = r.puts
        /\ UNCHANGED <<mp3match, start_hr, end_hr, responses>>
        /\ UNCHANGED wvars
        /\ UNCHANGED fvars

NextLegacy ==
    \E payload \in LegacyPayloads, rule2file \in Rule2Files :
        CallLegacyHandleGrafanaAlert(payload, rule2file)

SpecLegacy == InitLegacy /\ [][NextLegacy]_vars

(***************************************************************************)
(* fan.py's loop: one action per iteration, from the reading of the        *)
(* temperature difference and of the plug's state to the sleep.            *)
(***************************************************************************)
\* await turn_off(p110, config): p110.off() runs
await_turn_off(plug) == FALSE

\* await turn_on(p110, config): p110.on() runs
await_turn_on(plug) == TRUE

\* turn_off(p110, config) without await: the call makes a coroutine object
\* that is never run, so p110.off() is not called.
turn_off_not_awaited(plug) == plug

\* now.hour < start_hour or now.hour >= end_hour
outside_hours(hour, config) == hour < config.start_hour \/ hour >= config.end_hour

FanHours == 0..23
TempDiffs == {0, 1, 2}
FanConfigs == {FanConfig(8, 20, 1), FanConfig(-1, 24, 1)}

InitFan ==
    /\ mp3match = <<>>
    /\ start_hr = 8
    /\ end_hr = 23
    /\ play_queue = <<>>
    /\ op = "none"
    /\ arg = NoArg
    /\ ret = FALSE
    /\ raised = ""
    /\ puts = <<>>
    /\ responses = <<>>
    /\ put_log = <<>>
    /\ timeout = "int"
    /\ WorkerStarted
    /\ fan_config \in FanConfigs
    /\ device_on \in BOOLEAN

loop(hour, temp_diff) ==
    /\ device_on' =
          IF outside_hours(hour, fan_config)
          THEN IF device_on THEN turn_off_not_awaited(device_on) ELSE device_on
          ELSE IF temp_diff > fan_config.temp_diff
          THEN IF ~device_on THEN await_turn_on(device_on) ELSE device_on
          ELSE IF device_on THEN await_turn_off(device_on) ELSE device_on
    /\ op' = "loop"
    /\ arg' = [kind |-> "fan", hour |-> hour, temp_diff |-> temp_diff, device_on |-> device_on]
    /\ UNCHANGED <<mp3match, start_hr, end_hr, play_queue, ret, raised, puts, responses, put_log>>
    /\ UNCHANGED wvars
    /\ UNCHANGED fan_config

NextFan == \E hour \in FanHours, temp_diff \in TempDiffs : loop(hour, temp_diff)

SpecFan == InitFan /\ [][NextFan]_vars

(***************************************************************************)
(* Vocabulary of the properties.                                           *)
(***************************************************************************)
\* now lies in the window start_hr:00 .. end_hr:00 of its own day.
InsideWindow(now) ==
    /\ start_hr * 3600 <= now.hour * 3600 + now.minute * 60 + now.second
    /\ now.hour * 3600 + now.minute * 60 + now.second <= end_hr * 3600

HasName(alert) == ~IsNone(alert.labels) /\ ~IsNone(Val(alert.labels).alertname)
NameOf(alert) == Val(Val(alert.labels).alertname)
IsFiring(alert) == alert.status = Some("firing")
FiringNamed(alert) == IsFiring(alert) /\ HasName(alert)

RuleName(rule) == IF rule.params.is_list THEN rule.params.items[1] ELSE rule.params.str
HasPattern(rule) == rule.params.is_list
PatternOf(rule) == rule.params.items[2]
\* Rule i is the first rule of the table that carries this name.
FirstOfName(i, name) == \A j \in 1..(i - 1) : RuleName(mp3match[j]) # name

\* An alert item with a status, and with a name when it is firing.
ValidItem(alert) == ~IsNone(alert.status) /\ (IsFiring(alert) => HasName(alert))
WellFormedBatch(payload) ==
    /\ payload.kind = "object"
    /\ ~IsNone(payload.status)
    /\ ~IsNone(payload.alerts)
    /\ \A i \in DOMAIN Val(payload.alerts) : ValidItem(Val(payload.alerts)[i])
\* The firing items of a batch that a rule of the table selects.
MatchingItems(payload) ==
    {i \in DOMAIN Val(payload.alerts) :
        /\ FiringNamed(Val(payload.alerts)[i])
        /\ \E k \in DOMAIN mp3match :
              /\ RuleName(mp3match[k]) = NameOf(Val(payload.alerts)[i])
              /\ HasPattern(mp3match[k]) =>
                    /\ ~IsNone(Val(payload.alerts)[i].valueString)
                    /\ re_match(PatternOf(mp3match[k]), Val(Val(payload.alerts)[i].valueString))}

\* The request is one whose decoded payload do_POST hands to handle_grafana_payload.
PayloadHandled ==
    /\ op = "do_POST"
    /\ arg.ua = "Grafana"
    /\ do_not_disturb(arg.now, start_hr, end_hr)
    /\ arg.content_length = "len"
    /\ arg.body.kind = "json"

(***************************************************************************)
(* C1: a Grafana POST that arrives outside the window (before start_hr:00  *)
(* or after end_hr:00) is answered 200 and puts nothing on the play queue, *)
(* whatever its body.                                                      *)
(***************************************************************************)
C1_OutsideWindowSuppressed ==
    (op = "do_POST" /\ arg.ua = "Grafana" /\ ~InsideWindow(arg.now))
        => (responses = <<200>> /\ raised = "" /\ puts = <<>>)

(***************************************************************************)
(* C2: a Grafana POST that arrives inside the window with a well-formed    *)
(* batch is answered 200 and the queue gains exactly one entry per         *)
(* matching firing item; the firing alert 'foo' with value 'one bar two'   *)
(* against {'foo.mp3': ['foo', '.*bar.*']} puts 'foo.mp3' exactly once.    *)
(***************************************************************************)
C2_InsideWindowEnqueuesMatches ==
    ( /\ op = "do_POST"
      /\ arg.ua = "Grafana"
      /\ InsideWindow(arg.now)
      /\ arg.content_length = "len"
      /\ arg.body.kind = "json"
      /\ WellFormedBatch(arg.body.payload) )
        => /\ responses = <<200>>
           /\ Len(puts) = Cardinality(MatchingItems(arg.body.payload))
           /\ (mp3match = <<ValueRule("foo.mp3", s_foo, re_any_bar_any)>> /\ arg.body = SampleBody)
                 => puts = <<"foo.mp3">>

C5_PatternFoundAnywhere ==
    (op = "handle_grafana_alert" /\ FiringNamed(arg)) =>
        \A i \in DOMAIN mp3match :
            ( /\ HasPattern(mp3match[i])
              /\ RuleName(mp3match[i]) = NameOf(arg)
              /\ FirstOfName(i, NameOf(arg)) )
                => ( (ret = TRUE /\ puts = <<mp3match[i].file>>)
                       <=> ( /\ ~IsNone(arg.valueString)
                             /\ Val(arg.valueString) # s_empty
                             /\ re_search(PatternOf(mp3match[i]), Val(arg.valueString)) ) )

(***************************************************************************)
(* C5 as amended: for a rule with a value pattern that is the first rule   *)
(* of the alert's name, a firing alert of that name is matched by the rule *)
(* if and only if it carries a non-empty valueString that the pattern      *)
(* matches from its first character on (re.match): '.*bar.*' matches       *)
(* 'one bar two', 'bar' matches 'bar' and 'bar two' but not 'one bar two', *)
(* and 'huh' is rejected.                                                  *)
(***************************************************************************)
C5_PatternMatchesAtStart ==
    (op = "handle_grafana_alert" /\ FiringNamed(arg)) =>
        /\ \A i \in DOMAIN mp3match :
              ( /\ HasPattern(mp3match[i])
                /\ RuleName(mp3match[i]) = NameOf(arg)
                /\ FirstOfName(i, NameOf(arg)) )
                  => ( (ret = TRUE /\ puts = <<mp3match[i].file>>)
                         <=> ( /\ ~IsNone(arg.valueString)
                               /\ Val(arg.valueString) # s_empty
                               /\ matchhere(PatternOf(mp3match[i]), Val(arg.valueString)) ) )
        /\ (mp3match = <<ValueRule("foo.mp3", s_foo, re_any_bar_any)>> /\ NameOf(arg) = s_foo)
              => (puts = <<"foo.mp3">> <=> arg.valueString \in {Some(s_one_bar_two), Some(s_bar), Some(s_bar_two)})
        /\ (mp3match = <<ValueRule("foo.mp3", s_foo, re_bar)>> /\ NameOf(arg) = s_foo)
              => (puts = <<"foo.mp3">> <=> arg.valueString \in {Some(s_bar), Some(s_bar_two)})

C5_Witness ==
    /\ op = "handle_grafana_alert"
    /\ mp3match = <<ValueRule("foo.mp3", s_foo, re_any_bar_any)>>
    /\ IsFiring(arg)
    /\ HasName(arg)
    /\ NameOf(arg) = s_foo
    /\ arg.valueString = Some(s_one_bar_two)
    /\ ret = TRUE
    /\ puts = <<"foo.mp3">>

(***************************************************************************)
(* C6: an alert item whose status is present and is not 'firing' puts no   *)
(* target on the play queue and raises no error, whatever its name, its    *)
(* valueString and the rule table; a batch of such items puts nothing.     *)
(***************************************************************************)
C6_NotFiringNeverQueued ==
    /\ (op = "handle_grafana_alert" /\ ~IsNone(arg.status) /\ ~IsFiring(arg))
          => (raised = "" /\ ret = FALSE /\ puts = <<>>)
    /\ ( /\ op = "handle_grafana_payload"
         /\ arg.kind = "object"
         /\ ~IsNone(arg.status)
         /\ ~IsNone(arg.alerts)
         /\ \A i \in DOMAIN Val(arg.alerts) :
               ~IsNone(Val(arg.alerts)[i].status) /\ ~IsFiring(Val(arg.alerts)[i]) )
          => (raised = "" /\ ret = FALSE /\ puts = <<>>)

C6_Witness ==
    /\ op = "handle_grafana_alert"
    /\ mp3match = <<NameRule("foo.mp3", s_foo)>>
    /\ arg.status = Some("resolved")
    /\ HasName(arg)
    /\ NameOf(arg) = s_foo
    /\ raised = ""
    /\ ret = FALSE
    /\ puts = <<>>

(***************************************************************************)
(* C7: handle_grafana_payload raises GrafanaPayloadException when the      *)
(* payload has no top-level 'status' or no 'alerts', and raises nothing,   *)
(* puts nothing and returns False when 'alerts' is an empty list.          *)
(***************************************************************************)
C7_PayloadStructure ==
    (op = "handle_grafana_payload" /\ arg.kind = "object") =>
        /\ (IsNone(arg.status) \/ IsNone(arg.alerts))
              => (raised = "GrafanaPayloadException" /\ puts = <<>>)
        /\ (~IsNone(arg.status) /\ arg.alerts = Some(<<>>))
              => (raised = "" /\ ret = FALSE /\ puts = <<>>)

C7_Witness ==
    /\ op = "handle_grafana_payload"
    /\ arg.kind = "object"
    /\ ~IsNone(arg.status)
    /\ IsNone(arg.alerts)
    /\ raised = "GrafanaPayloadException"

(***************************************************************************)
(* C8: when the first invalid item of a handled batch is a firing item     *)
(* that carries no alert name, handle_grafana_alert raises                 *)
(* GrafanaPayloadException and do_POST answers 400.                        *)
(***************************************************************************)
C8_MissingNameAnswered400 ==
    ( /\ PayloadHandled
      /\ arg.body.payload.kind = "object"
      /\ ~IsNone(arg.body.payload.status)
      /\ ~IsNone(arg.body.payload.alerts)
      /\ \E i \in DOMAIN Val(arg.body.payload.alerts) :
            /\ IsFiring(Val(arg.body.payload.alerts)[i])
            /\ ~HasName(Val(arg.body.payload.alerts)[i])
            /\ \A j \in 1..(i - 1) : ValidItem(Val(arg.body.payload.alerts)[j]) )
        => (raised = "" /\ responses = <<400>>)

(***************************************************************************)
(* C9: a request that do_POST answers with 400 has put nothing on the play *)
(* queue, also when the invalid item comes after matching items.           *)
(***************************************************************************)
C9_Answer400PutsNothing ==
    (op = "do_POST" /\ responses = <<400>>) => puts = <<>>

(***************************************************************************)
(* C10: every request handled by do_POST ends in exactly one response, 200 *)
(* or 400, and no exception leaves the handler.                            *)
(***************************************************************************)
C10_ExactlyOneResponse ==
    op = "do_POST" =>
        /\ raised = ""
        /\ Len(responses) = 1
        /\ responses[1] \in {200, 400}

C12_EmptyOrInvalidBodyAnswered400 ==
    ( /\ op = "do_POST"
      /\ arg.ua = "Grafana"
      /\ do_not_disturb(arg.now, start_hr, end_hr)
      /\ \/ arg.content_length = "zero"
         \/ arg.content_length = "len" /\ arg.body.kind \in {"notjson", "badutf8"} )
        => (responses = <<400>> /\ raised = "" /\ puts = <<>>)

\* The players that have been spawned and have not exited.
Alive == {i \in DOMAIN procs : procs[i] \in {"running", "terminated"}}

\* s is the beginning of t.
IsPrefix(s, t) == Len(s) <= Len(t) /\ SubSeq(t, 1, Len(s)) = s

(***************************************************************************)
(* C13: at any time at most one player spawned by play_mp3 is alive, and   *)
(* when the thread is about to spawn a player every player spawned before  *)
(* has exited, whatever the queue holds and whatever requests enqueue      *)
(* while a player runs.                                                    *)
(***************************************************************************)
C13_AtMostOnePlayerAlive ==
    /\ Cardinality(Alive) <= 1
    /\ worker = "popen" => Alive = {}

C13_Witness ==
    /\ Len(procs) = 2
    /\ procs[1] = "reaped"
    /\ procs[2] = "running"
    /\ worker = "communicate"
    /\ play_queue # <<>>
    /\ op = "do_POST"

\* The entry the thread has taken off the queue and not yet handed to a player.
Held ==
    IF worker \in {"exists", "popen"} \/ worker_raised = "OSError" THEN <<path>> ELSE <<>>

(***************************************************************************)
(* C14: the thread takes the targets off the queue, and starts their       *)
(* players, in the order in which they were put: the targets played so far *)
(* are the first ones put, in that order, followed by the one in the       *)
(* thread's hands and by the queue, and every player but the last one      *)
(* started has ended.                                                      *)
(***************************************************************************)
C14_PlayedInPutOrder ==
    /\ IsPrefix(started, put_log)
    /\ put_log = started \o Held \o play_queue
    /\ \A i \in DOMAIN procs : i < Len(procs) => procs[i] \in {"exited", "reaped"}

C14_Witness ==
    /\ put_log = <<"foo.mp3", "alt.mp3">>
    /\ started = <<"foo.mp3", "alt.mp3">>
    /\ procs = <<"reaped", "running">>
    /\ play_queue = <<>>

(***************************************************************************)
(* C15 as claimed: when every queued file exists and every player exits,   *)
(* by itself or after being terminated, each put is eventually followed by *)
(* a player spawned for that entry: once n targets have been put, n        *)
(* players are eventually started.                                         *)
(***************************************************************************)
C15_EveryPutEventuallyPlayed ==
    \A n \in 1..MaxPuts : (Len(put_log) >= n) ~> (Len(started) >= n)

(***************************************************************************)
(* C16 as claimed: when a player is still running after the timeout, the   *)
(* thread terminates it and eventually is back at taking the next target   *)
(* off the queue.                                                          *)
(***************************************************************************)
C16_OverduePlayerReleasesWorker ==
    (procs # <<>> /\ LastProc = "running" /\ overdue) ~> (worker = "get")

(***************************************************************************)
(* C17 as claimed: the play_mp3 thread never ends (stated for the default  *)
(* timeout): after every target taken off the queue, also one whose file   *)
(* is no longer on disk, it goes back to taking the next one.              *)
(***************************************************************************)
C17_WorkerNeverStops ==
    timeout = "int" => worker # "stopped"

\* The files the request would put, and whether the model's caps on the
\* queue length and on the number of puts leave room for them.
PutsOf(request) == handle_request(request, mp3match, start_hr, end_hr).puts
WithinCaps(request) ==
    /\ Len(play_queue) + Len(PutsOf(request)) <= MaxQueue
    /\ Len(put_log) + Len(PutsOf(request)) <= MaxPuts

(***************************************************************************)
(* C18: putting a target on the play queue is always possible and never    *)
(* waits: in every reachable state, whatever the queue holds and wherever  *)
(* the play_mp3 thread stands (waiting in get, playing, waiting for a      *)
(* player, or ended), every request's handler can run to its end with all  *)
(* its puts.                                                               *)
(***************************************************************************)
C18_PutAlwaysEnabled ==
    \A request \in PlayRequests : WithinCaps(request) => ENABLED do_POST(request)

C18_Witness ==
    /\ worker = "stopped"
    /\ play_queue # <<>>
    /\ \E request \in PlayRequests :
          /\ PutsOf(request) # <<>>
          /\ WithinCaps(request)
          /\ ENABLED do_POST(request)

(***************************************************************************)
(* C19 as claimed: load_hr_config returns (8, 23) for a configuration      *)
(* without start_end section, and for a section that supplies start_hr and *)
(* end_hr it returns the two values as given, for every hour 0..23.        *)
(***************************************************************************)
C19_LoadHrConfigExact ==
    op = "load_hr_config" =>
        /\ ~arg.has_section => (start_hr = 8 /\ end_hr = 23)
        /\ (arg.has_section /\ ~IsNone(arg.start_hr) /\ ~IsNone(arg.end_hr))
              => (start_hr = Val(arg.start_hr) /\ end_hr = Val(arg.end_hr))

(***************************************************************************)
(* C20: whenever handle_grafana_payload returns (rather than raises), it   *)
(* returns True if and only if the call put at least one target on the     *)
(* play queue, and False otherwise.                                        *)
(***************************************************************************)
C20_ReturnsTrueIffPut ==
    (op = "handle_grafana_payload" /\ raised = "") => (ret = TRUE <=> puts # <<>>)

C20_Witness ==
    /\ op = "handle_grafana_payload"
    /\ raised = ""
    /\ ret = TRUE
    /\ Len(puts) = 1
    /\ arg.kind = "object"
    /\ ~IsNone(arg.alerts)
    /\ Len(Val(arg.alerts)) = 2
    /\ handle_grafana_alert(Val(arg.alerts)[2], mp3match).ret = FALSE

\* Rule i of the table matches the alert: its name is the alert's, and its
\* value pattern, if it has one, matches the alert's valueString.
RuleMatches(i, alert) ==
    /\ RuleName(mp3match[i]) = NameOf(alert)
    /\ HasPattern(mp3match[i]) => value_found(PatternOf(mp3match[i]), alert.valueString)

(***************************************************************************)
(* C21 as claimed: for a firing alert item the scan of the rules stops at  *)
(* the first rule whose name is the alert's name: if that rule's value     *)
(* pattern does not match, the item yields no match, also when a later     *)
(* rule of the same name would match.                                      *)
(***************************************************************************)
C21_ScanStopsAtFirstName ==
    (op = "handle_grafana_alert" /\ FiringNamed(arg)) =>
        \A i \in DOMAIN mp3match :
            ( /\ RuleName(mp3match[i]) = NameOf(arg)
              /\ FirstOfName(i, NameOf(arg))
              /\ ~RuleMatches(i, arg) )
                => (raised = "" /\ ret = FALSE /\ puts = <<>>)

(***************************************************************************)
(* C21 as amended: for a firing alert item the scan of the rules does not  *)
(* stop at the first rule whose name is the alert's name: if that rule's   *)
(* value pattern does not match, the scan goes on, and the item is matched *)
(* if and only if a later rule matches it (a rule of the same name without *)
(* pattern, or with a pattern that matches).                               *)
(***************************************************************************)
C21_ScanContinuesPastFailedValue ==
    (op = "handle_grafana_alert" /\ FiringNamed(arg)) =>
        \A i \in DOMAIN mp3match :
            ( /\ RuleName(mp3match[i]) = NameOf(arg)
              /\ FirstOfName(i, NameOf(arg))
              /\ ~RuleMatches(i, arg) )
                => /\ raised = ""
                   /\ ret = TRUE <=> \E j \in (i + 1)..Len(mp3match) : RuleMatches(j, arg)
                   /\ puts # <<>> <=> \E j \in (i + 1)..Len(mp3match) : RuleMatches(j, arg)

C21_Witness ==
    /\ op = "handle_grafana_alert"
    /\ mp3match = <<ValueRule("foo.mp3", s_foo, re_bar), NameRule("alt.mp3", s_foo)>>
    /\ FiringNamed(arg)
    /\ NameOf(arg) = s_foo
    /\ arg.valueString = Some(s_one_bar_two)
    /\ ret = TRUE
    /\ puts = <<"alt.mp3">>

(***************************************************************************)
(* C22: a firing alert item puts at most one target on the play queue, the *)
(* target of the first rule, in the order of the rule table, that matches  *)
(* it, also when several rules match it.                                   *)
(***************************************************************************)
C22_AtMostOneTargetPerItem ==
    op = "handle_grafana_alert" =>
        /\ Len(puts) <= 1
        /\ FiringNamed(arg) =>
              \A i \in DOMAIN mp3match :
                  (RuleMatches(i, arg) /\ \A j \in 1..(i - 1) : ~RuleMatches(j, arg))
                      => puts = <<mp3match[i].file>>

C22_Witness ==
    /\ op = "handle_grafana_alert"
    /\ mp3match = <<NameRule("foo.mp3", s_foo), ValueRule("alt.mp3", s_foo, re_any_bar_any)>>
    /\ FiringNamed(arg)
    /\ RuleMatches(1, arg)
    /\ RuleMatches(2, arg)
    /\ puts = <<"foo.mp3">>

\* The file a firing, named alert selects: that of the first rule that
\* matches it; nothing when no rule matches or the alert is not firing.
TargetsOfItem(alert) ==
    IF FiringNamed(alert) /\ \E i \in DOMAIN mp3match : RuleMatches(i, alert)
    THEN LET first == CHOOSE i \in DOMAIN mp3match :
                         /\ RuleMatches(i, alert)
                         /\ \A j \in 1..(i - 1) : ~RuleMatches(j, alert)
         IN  <<mp3match[first].file>>
    ELSE <<>>

\* The files selected by the items of a batch, in the order of the items.
RECURSIVE TargetsOfBatch(_)
TargetsOfBatch(alerts) ==
    IF alerts = <<>> THEN <<>>
    ELSE TargetsOfItem(Head(alerts)) \o TargetsOfBatch(Tail(alerts))

(***************************************************************************)
(* C23: for a batch none of whose items is structurally invalid, every     *)
(* item is evaluated, whatever the items before it did, and the targets of *)
(* the matching items are put on the queue in the order of the items: the  *)
(* call raises nothing and puts exactly the items' targets, in order.      *)
(***************************************************************************)
C23_EveryItemEvaluatedInOrder ==
    (op = "handle_grafana_payload" /\ WellFormedBatch(arg)) =>
        /\ raised = ""
        /\ puts = TargetsOfBatch(Val(arg.alerts))

C23_Witness ==
    /\ op = "handle_grafana_payload"
    /\ WellFormedBatch(arg)
    /\ Len(Val(arg.alerts)) = 2
    /\ Val(Val(arg.alerts)[1].valueString) = s_one_bar_two
    /\ Val(Val(arg.alerts)[2].valueString) = s_bar
    /\ puts = <<"alt.mp3", "foo.mp3">>
    /\ ret = TRUE

(***************************************************************************)
(* C24: whenever the play_mp3 thread is at the dequeue step, every player  *)
(* it spawned before has exited and has been waited for, after a player    *)
(* that ended by itself and after one terminated on timeout alike.         *)
(***************************************************************************)
C24_ReapedAtDequeue ==
    worker = "get" => \A i \in DOMAIN procs : procs[i] = "reaped"

\* The thread is back at the dequeue after two players, the second of which
\* ran past the timeout.
C24_Witness ==
    /\ worker = "get"
    /\ procs = <<"reaped", "reaped">>
    /\ overdue
    /\ timeout = "int"

(***************************************************************************)
(* C25: handling requests and playing never changes the rule table or the  *)
(* time window: after any sequence of requests and playbacks the server's  *)
(* mp3match, start_hr and end_hr are those of startup, and no step of a    *)
(* handler or of the play_mp3 thread changes the timeout or the files on   *)
(* disk.                                                                   *)
(***************************************************************************)
C25_RulesAndWindowUnchanged ==
    [][ /\ mp3match' = mp3match
        /\ start_hr' = start_hr
        /\ end_hr' = end_hr
        /\ timeout' = timeout
        /\ (on_disk' # on_disk) => \E f \in Mp3Files : file_removed(f) ]_vars

\* Requests have been handled and two players have been run to their end.
C25_Witness ==
    /\ op = "do_POST"
    /\ puts # <<>>
    /\ procs = <<"reaped", "reaped">>
    /\ worker = "get"
    /\ mp3match = PlayTable
    /\ start_hr = 9
    /\ end_hr = 22

\* The payload's ruleName is a key of rule2file (ruleName in rule2file).
HasMapping(payload, rule2file) ==
    /\ ~IsNone(payload.ruleName)
    /\ \E m \in rule2file : m.name = Lower(Val(payload.ruleName))

C27_FanOffOutsideHours ==
    ( /\ op = "loop"
      /\ (arg.hour < fan_config.start_hour \/ arg.hour >= fan_config.end_hour)
      /\ arg.device_on )
        => ~device_on

\* The payload with its top-level status replaced.
WithTopStatus(payload, status) == [payload EXCEPT !.status = status]

(***************************************************************************)
(* C28: the value of the payload's top-level 'status' does not affect      *)
(* matching: the call on a batch payload with a non-null top-level status  *)
(* puts the same targets, returns the same result and raises the same      *)
(* exception as the call on the payload that differs from it only in       *)
(* another non-null top-level status ('firing', 'resolved', 'ok').         *)
(***************************************************************************)
C28_TopStatusIrrelevant ==
    (op = "handle_grafana_payload" /\ arg.kind = "object" /\ ~IsNone(arg.status)) =>
        \A status \in TopStatuses :
            LET other == handle_grafana_payload(WithTopStatus(arg, status), mp3match)
            IN  /\ other.puts = puts
                /\ other.ret = ret
                /\ other.raised = raised

C28_Witness ==
    /\ op = "handle_grafana_payload"
    /\ arg.kind = "object"
    /\ arg.status = Some("resolved")
    /\ ~IsNone(arg.alerts)
    /\ Len(Val(arg.alerts)) = 2
    /\ ret = TRUE
    /\ puts = <<"foo.mp3", "alt.mp3">>

C30_WindowNeverWraps ==
    op = "do_not_disturb" =>
        /\ start_hr > end_hr => ret = TRUE
        /\ start_hr = end_hr => (ret = FALSE <=> arg = Time(start_hr, 0, 0))

C30_Witness ==
    /\ op = "do_not_disturb"
    /\ start_hr = 22
    /\ end_hr = 9
    /\ arg = Time(23, 5, 0)
    /\ ret = TRUE

====
